---- MODULE Spec2Model ----
(***************************************************************************)
(* MailGuard: the analyze_email request handler (api/views.py), the URL    *)
(* blocklist (api/url_blocklist.py) and the ML engine (api/ml_engine.py),  *)
(* as a state machine of worker threads sharing the EmailRecord table, the *)
(* engine's module globals (_model, _lock) and the blocklist sets.         *)
(*                                                                         *)
(* Numbers.  A model probability is an integer number of millionths        *)
(* (0.699999 is 699999).  The engine's reported score is in thousandths    *)
(* (round(score, 3)); a fused score is in ten-thousandths, so that         *)
(* 0.7 * ml_score is the integer 7 * k for ml_score = k / 1000.            *)
(***************************************************************************)
EXTENDS Integers, Sequences, FiniteSets

\* ------------------------------------------------------------------ bounds
MaxLen == 3
NThreads == 2          \* concurrent request workers
NMsg == 2              \* distinct message ids

Threads == 1..NThreads
MsgIds == 1..NMsg

\* ------------------------------------------------------- program constants
SPAM_CUT == 7000       \* final_score >= 0.7, in ten-thousandths
SUSPICIOUS_CUT == 4000 \* final_score >= 0.4, in ten-thousandths
BENIGN_FACTOR == 7     \* final_score = 0.7 * ml_score: tenths
MALICIOUS_SCORE == 1000 \* final_score = 1.0, in thousandths
PHRASE_SCORE == 500    \* score += 0.5
HTTP_SCORE == 300      \* score += 0.3
STUB_SPAM_CUT == 600   \* fallback: score > 0.6
STUB_SUSPICIOUS_CUT == 250 \* fallback: score > 0.25
LABEL_CUT == 500000    \* model: score > 0.5, in millionths
NULL_SCORE == -1       \* EmailRecord.score is NULL until the analysis saves it

\* ------------------------------------------------------------------- hosts
\* A host name is its sequence of labels; "test" stands for a one-label
\* public suffix.
BAD == <<"bad", "test">>
EVIL == <<"evil", "test">>
GOOD == <<"good", "test">>
KIND == <<"kind", "test">>
NEUTRAL == <<"neutral", "test">>
LOGIN_EVIL == <<"login", "evil", "test">>
MAIL_GOOD == <<"mail", "good", "test">>
NoHost == <<>>

\* sorted(): the known root domains in string order.
SortedRoots == <<BAD, EVIL, GOOD, KIND, NEUTRAL>>

RECURSIVE sorted_from(_, _)
sorted_from(S, i) ==
  IF i > Len(SortedRoots) THEN <<>>
  ELSE (IF SortedRoots[i] \in S THEN <<SortedRoots[i]>> ELSE <<>>)
         \o sorted_from(S, i + 1)

RECURSIVE sorted_down_from(_, _)
sorted_down_from(S, i) ==
  IF i < 1 THEN <<>>
  ELSE (IF SortedRoots[i] \in S THEN <<SortedRoots[i]>> ELSE <<>>)
         \o sorted_down_from(S, i - 1)

sorted_descending(S) == sorted_down_from(S, Len(SortedRoots))

sorted(S) == sorted_from(S, 1)

\* _extract_root_domain: tldextract's domain + "." + suffix, None without both.
extract_root_domain(value) ==
  IF Len(value) < 2 THEN NoHost
  ELSE SubSeq(value, Len(value) - 1, Len(value))

\* _get_sender_domain: the text after the "@" of the sender, None without one.
\* A sender is [at |-> whether it holds an "@", domain |-> what follows it].
get_sender_domain(sender) ==
  IF ~sender.at THEN NoHost ELSE sender.domain

\* extract_hosts: the root of the sender's domain and of every URL of the body.
extract_hosts(sender, body) ==
  LET sd == get_sender_domain(sender)
      sroot == IF sd = NoHost THEN NoHost ELSE extract_root_domain(sd)
  IN  ((IF sroot = NoHost THEN {} ELSE {sroot})
        \cup {extract_root_domain(u.host) : u \in body.urls}) \ {NoHost}

assess_status_benign_first(malicious_hits, benign_hits) ==
  IF benign_hits # {} THEN "benign"
  ELSE IF malicious_hits # {} THEN "malicious"
  ELSE "unknown"

\* assess_urls, given the two loaded sets.
assess_status(malicious_hits, benign_hits) ==
  IF malicious_hits # {} THEN "malicious"
  ELSE IF benign_hits # {} THEN "benign"
  ELSE "unknown"

assess_urls_subdomain_match(sender, body, malicious_roots, benign_roots) ==
  LET roots == extract_hosts(sender, body)
      malicious_hits ==
        {h \in roots : \E l \in malicious_roots : extract_root_domain(l) = h}
      benign_hits ==
        {h \in roots : \E l \in benign_roots : extract_root_domain(l) = h}
  IN  [status |-> assess_status(malicious_hits, benign_hits),
       hosts |-> sorted(roots),
       malicious_hosts |-> sorted(malicious_hits),
       benign_hosts |-> sorted(benign_hits)]

assess_urls(sender, body, malicious_roots, benign_roots) ==
  LET roots == extract_hosts(sender, body)
      malicious_hits == {h \in roots : h \in malicious_roots}
      benign_hits == {h \in roots : h \in benign_roots}
  IN  [status |-> assess_status(malicious_hits, benign_hits),
       hosts |-> sorted(roots),
       malicious_hosts |-> sorted(malicious_hits),
       benign_hosts |-> sorted(benign_hits)]

load_blocklist_unconditional(exists, lines) == lines

\* _load_blocklists: the lines of a file that exists, the empty set otherwise.
load_blocklist(exists, lines) == IF exists THEN lines ELSE {}

\* ------------------------------------------------------------- ml_engine
None == "None"

\* round(score, 3) of a probability in millionths, in thousandths.  The
\* probabilities drawn below are never exactly halfway between two
\* thousandths, so the nearest thousandth is unique.
round3_micro(u) == (u + 500) \div 1000

stub_score_any_http(text) ==
  (IF text.phrase THEN PHRASE_SCORE ELSE 0)
    + (IF text.http THEN HTTP_SCORE ELSE 0)

\* predict, the fallback heuristic: the text holds one of the fixed phrases /
\* holds "http://" / holds "https://".
stub_score(text) ==
  (IF text.phrase THEN PHRASE_SCORE ELSE 0)
    + (IF text.http /\ ~text.https THEN HTTP_SCORE ELSE 0)

stub_reasons(text) ==
  (IF text.phrase THEN << <<"suspicious_phrases">> >> ELSE <<>>)
    \o (IF text.http /\ ~text.https THEN << <<"insecure_http_link">> >> ELSE <<>>)

stub_verdict(score) ==
  IF score > STUB_SPAM_CUT THEN "spam"
  ELSE IF score > STUB_SUSPICIOUS_CUT THEN "suspicious"
  ELSE "benign"

predict_stub(text) ==
  [verdict |-> stub_verdict(stub_score(text)),
   score |-> stub_score(text),
   reasons |-> stub_reasons(text),
   model |-> "stub"]

\* predict, the except branch.
error_fallback ==
  [verdict |-> "benign", score |-> 0,
   reasons |-> << <<"model_error", "exc">> >>, model |-> "error_fallback"]

\* predict, the normalisation of the label model.predict gave ("raise": it
\* raised and the label is None; "1", "0": a number or a digit string).
label_verdict(label, prob) ==
  IF label \in {"1", "0"} THEN (IF label = "1" THEN "spam" ELSE "benign")
  ELSE IF label \in {"spam", "benign", "suspicious"} THEN label
  ELSE IF prob > LABEL_CUT THEN "spam" ELSE "benign"

\* predict, a loaded object with neither predict_proba nor predict.
predict_unknown ==
  [verdict |-> "unknown", score |-> 0,
   reasons |-> << <<"model_loaded_but_unhandled">> >>, model |-> "unknown"]

predict_sklearn_error_as_unknown(out) ==
  IF out.proba_raises THEN predict_unknown
  ELSE [verdict |-> label_verdict(out.label, out.prob),
        score |-> round3_micro(out.prob), reasons |-> <<>>, model |-> "sklearn"]

\* predict on a loaded model.  out is what the model does in this call:
\* prob, the probability its scoring interface gives; proba_raises, whether
\* predict_proba raises; label, what model.predict gives ("raise": it raises).
predict_sklearn(out) ==
  IF out.proba_raises THEN error_fallback
  ELSE [verdict |-> label_verdict(out.label, out.prob),
        score |-> round3_micro(out.prob), reasons |-> <<>>, model |-> "sklearn"]

predict_keras(out) ==
  IF out.label = "raise" THEN error_fallback
  ELSE [verdict |-> IF out.prob > LABEL_CUT THEN "spam" ELSE "benign",
        score |-> round3_micro(out.prob), reasons |-> <<>>, model |-> "keras"]

\* predict, once the model is settled (None: the fallback).
predict_on(model, text, out) ==
  IF model = None THEN predict_stub(text)
  ELSE IF model = "sklearn" THEN predict_sklearn(out)
  ELSE IF model = "keras" THEN predict_keras(out)
  ELSE predict_unknown

\* _load_model_from_file: what joblib.load (and the loaders after it) give for
\* the artifact at MODEL_PATH; None when no loader succeeds.
load_model_from_file(artifact) ==
  IF artifact \in {"missing", "corrupt"} THEN None ELSE artifact

\* -------------------------------------------------------------- predictor
\* A text is a sequence of tokens, each standing for a run of characters of
\* one kind:
\*   "Word"  a capitalised word            "word"  the same in lower case
\*   "gap"   a run of blanks, tabs, newlines
\*   "moji"  a mis-encoded dash             "-"     a dash
\*   "url"   http://a.test/x                "email" a@b.test
\*   "phone" +1 555 123 4567                "image" [image: logo]
\*   "<b>"   an HTML tag                    "<url>" a literal placeholder
\*   "&lt;b&gt;"  a tag written with entities
\*   "&amp;lt;b&amp;gt;"  the same, its ampersands written as entities
\*   "fwd"   forwarded message              "from"  from:
\*   "dashfwd"  ---------- forwarded message
\*   "dashes"   ----------
\*   "<URL>", "<EMAIL>", "<PHONE>", "<IMAGE>"  what the patterns are replaced by
\* fix_mojibake: MOJIBAKE_REGEX.sub over the table.
fix_mojibake_token(tok) == IF tok = "moji" THEN "-" ELSE tok
fix_mojibake(text) == [i \in 1..Len(text) |-> fix_mojibake_token(text[i])]

\* html.unescape: one pass of entity decoding.
unescape_token(tok) ==
  IF tok = "&amp;lt;b&amp;gt;" THEN "&lt;b&gt;"
  ELSE IF tok = "&lt;b&gt;" THEN "<b>"
  ELSE tok
unescape(text) == [i \in 1..Len(text) |-> unescape_token(text[i])]

FORWARD_MARKERS ==
  <<"forwarded message", "---------- forwarded message", "from:">>

\* Whether the characters of a token hold a marker.
TokenHolds(tok, marker) ==
  \/ marker = "forwarded message" /\ tok \in {"fwd", "dashfwd"}
  \/ marker = "---------- forwarded message" /\ tok = "dashfwd"
  \/ marker = "from:" /\ tok = "from"

\* lower.find(marker): the first token that holds it, 0 for -1.
find(text, marker) ==
  IF \E i \in 1..Len(text) : TokenHolds(text[i], marker)
  THEN CHOOSE i \in 1..Len(text) :
         /\ TokenHolds(text[i], marker)
         /\ \A j \in 1..(i - 1) : ~TokenHolds(text[j], marker)
  ELSE 0

\* text[:idx]: the tokens before the one that holds the marker, and the
\* characters of that token before the marker.
Prefix(text, idx, marker) ==
  SubSeq(text, 1, idx - 1)
    \o (IF text[idx] = "dashfwd" /\ marker = "forwarded message"
        THEN <<"dashes">> ELSE <<>>)

\* clean_text, lines 96-102: the loop over FORWARD_MARKERS, left at the first
\* marker of the list that is found.
RECURSIVE truncate_from(_, _)
truncate_from(text, m) ==
  IF m > Len(FORWARD_MARKERS) THEN text
  ELSE IF find(text, FORWARD_MARKERS[m]) # 0
       THEN Prefix(text, find(text, FORWARD_MARKERS[m]), FORWARD_MARKERS[m])
       ELSE truncate_from(text, m + 1)

truncate(text) == truncate_from(text, 1)

\* clean_text, lines 105-108: URL_RE, EMAIL_RE, PHONE_RE, IMAGE_PLACEHOLDER_RE.
placeholder_token(tok) ==
  IF tok = "url" THEN "<URL>"
  ELSE IF tok = "email" THEN "<EMAIL>"
  ELSE IF tok = "phone" THEN "<PHONE>"
  ELSE IF tok = "image" THEN "<IMAGE>"
  ELSE tok
placeholders(text) == [i \in 1..Len(text) |-> placeholder_token(text[i])]

\* clean_text, line 111: re.sub(r"<[^>]+>", " ", text).
TagLike == {"<b>", "<url>", "<URL>", "<EMAIL>", "<PHONE>", "<IMAGE>"}
strip_tags_token(tok) == IF tok \in TagLike THEN "gap" ELSE tok
strip_tags(text) == [i \in 1..Len(text) |-> strip_tags_token(text[i])]

\* clean_text, lines 112-113: whitespace runs collapsed, the ends stripped.
collapse_whitespace(text) == SelectSeq(text, LAMBDA tok : tok # "gap")

\* clean_text, line 115: text.lower().
lower_token(tok) ==
  IF tok = "Word" THEN "word"
  ELSE IF tok = "<URL>" THEN "<url>"
  ELSE IF tok = "<EMAIL>" THEN "<email>"
  ELSE IF tok = "<PHONE>" THEN "<phone>"
  ELSE IF tok = "<IMAGE>" THEN "<image>"
  ELSE tok
lower(text) == [i \in 1..Len(text) |-> lower_token(text[i])]

clean_text(raw_text) ==
  lower(collapse_whitespace(strip_tags(placeholders(
    truncate(unescape(fix_mojibake(raw_text)))))))

\* ------------------------------------------------------------------ views
fuse_score_undiscounted(status_block, benign_hosts, ml_score) == 10 * ml_score

\* The fused score, in ten-thousandths: 0.7 * ml_score on a benign hit,
\* ml_score otherwise.
fuse_score(status_block, benign_hosts, ml_score) ==
  IF status_block = "benign" /\ benign_hosts # <<>>
  THEN BENIGN_FACTOR * ml_score
  ELSE 10 * ml_score

fuse_verdict_no_default(final_score) ==
  IF final_score >= SPAM_CUT THEN "spam"
  ELSE IF final_score >= SUSPICIOUS_CUT THEN "suspicious"
  ELSE "unknown"

\* The verdict of a fused score.
fuse_verdict(final_score) ==
  IF final_score >= SPAM_CUT THEN "spam"
  ELSE IF final_score >= SUSPICIOUS_CUT THEN "suspicious"
  ELSE "benign"

\* round(final_score, 3) on the double 0.7 * ml_score.  A product that is
\* halfway between two thousandths in decimal is not in binary: these are
\* the ones whose double lies above the midpoint and rounds up.
TieRoundsUp ==
  {245, 315, 805, 945, 1295, 1575, 1925, 2555, 3185, 3255, 3815, 3885,
   4375, 5635, 6895, 6965}

round3(final_score) ==
  IF final_score % 10 = 5
  THEN (IF final_score \in TieRoundsUp
        THEN (final_score + 5) \div 10 ELSE (final_score - 5) \div 10)
  ELSE (final_score + 5) \div 10

fuse_reasons(status_block, benign_hosts, ml_reasons) ==
  IF status_block = "benign" /\ benign_hosts # <<>>
  THEN ml_reasons \o << <<"blocklist_benign_hit">> >>
         \o [i \in 1..Len(benign_hosts) |->
               <<"blocklist_benign_domain">> \o benign_hosts[i]]
  ELSE ml_reasons

malicious_reasons(malicious_hosts) ==
  << <<"blocklist_malicious_hit">> >>
    \o [i \in 1..Len(malicious_hosts) |->
          <<"blocklist_malicious_domain">> \o malicious_hosts[i]]

\* AnalyzeEmailSerializer: validated_data holds the declared fields only.
DeclaredFields ==
  {"message_id", "sender", "subject", "body", "date", "attachments",
   "attachments_text", "client_meta"}

validated_data(request) ==
  [k \in (DOMAIN request) \cap DeclaredFields |-> request[k]]

force_recompute_default_true(data) ==
  IF "force_recompute" \in DOMAIN data THEN data["force_recompute"] ELSE TRUE

\* bool(data.get("force_recompute", False))
force_recompute(data) ==
  IF "force_recompute" \in DOMAIN data THEN data["force_recompute"] ELSE FALSE

\* body_for_analysis, as predict reads it: whether it holds one of the
\* phrases, "http://", "https://".
body_for_analysis(data) ==
  [phrase |-> data["body"].phrase,
   http |-> \E u \in data["body"].urls : u.scheme = "http",
   https |-> \E u \in data["body"].urls : u.scheme = "https"]

\* EmailRecord.objects.filter(message_id=...).first(): the committed rows of
\* that id (a row a transaction has not committed is invisible to the others).
existing(tbl, message_id) ==
  {r \in tbl : r.message_id = message_id /\ r.txn = 0}

\* The unique index on message_id, at INSERT: a committed row of the id is a
\* violation; an uncommitted one of another transaction makes the INSERT wait.
unique_violation_unchecked(tbl, message_id) == FALSE

unique_violation(tbl, message_id) ==
  \E r \in tbl : r.message_id = message_id /\ r.txn = 0

insert_waits(tbl, message_id, t) ==
  \E r \in tbl : r.message_id = message_id /\ r.txn \notin {0, t}

\* ------------------------------------------------------------------ state
VARIABLES
  table,            \* the EmailRecord rows: message_id, verdict, score, reasons,
                    \* and txn, the thread whose open transaction holds the row
                    \* (0: committed)
  pc,               \* where each worker thread is in post()
  req,              \* the request data it is handling
  pred,             \* what ml_engine.predict returned to it
  resp,             \* the response it built
  log,              \* history: the operations it has invoked for this request
  drawn,            \* history: what the loaded model did in its predict call
  _model,           \* ml_engine._model
  _lock,            \* ml_engine._lock: the thread holding it, 0 when free
  MODEL_PATH,       \* whether MAILGUARD_MODEL_PATH is configured
  artifact,         \* what is at MODEL_PATH
  MALICIOUS_ROOTS,  \* url_blocklist.MALICIOUS_ROOTS
  BENIGN_ROOTS,     \* url_blocklist.BENIGN_ROOTS
  load_failed,      \* history: some load_model() call has returned None
  MALICIOUS_TXT_PATH,  \* whether the malicious-domains file exists
  BENIGN_TXT_PATH,     \* whether the benign-domains file exists
  raw,              \* predictor: a raw text given to clean_text
  cleaned           \* predictor: what clean_text returned for raw, and then
                    \* for its own result

vars ==
  <<table, pc, req, pred, resp, log, drawn, _model, _lock, MODEL_PATH, artifact,
    MALICIOUS_ROOTS, BENIGN_ROOTS, load_failed, MALICIOUS_TXT_PATH,
    BENIGN_TXT_PATH, raw, cleaned>>

engine == <<_model, _lock, load_failed>>
predictor == <<raw, cleaned>>
\* What no step of post() changes.
environment ==
  <<MODEL_PATH, artifact, MALICIOUS_ROOTS, BENIGN_ROOTS, MALICIOUS_TXT_PATH,
    BENIGN_TXT_PATH, predictor>>

NoReq == [message_id |-> 0]
NoPred == [model |-> "none"]
NoResp == [status |-> 0]
NoOut == [prob |-> -1]

\* The lines of the two blocklist files; the malicious one also lists a
\* subdomain of a benign root.
MaliciousLines == {BAD, EVIL, MAIL_GOOD}
BenignLines == {GOOD, KIND}

\* ------------------------------------------------------------------ inputs
Sender(domain) == [at |-> TRUE, domain |-> domain]
NoAtSender == [at |-> FALSE, domain |-> NoHost]
Url(scheme, host) == [scheme |-> scheme, host |-> host]
Body(phrase, urls) == [phrase |-> phrase, urls |-> urls]
\* attachments_text: the OCR texts of the attachments, each one like a body.
EmailWith(sender, body, attachments_text) ==
  [sender |-> sender, body |-> body, attachments_text |-> attachments_text]
Email(sender, body) == EmailWith(sender, body, <<>>)

PlainEmail == Email(Sender(NEUTRAL), Body(FALSE, {}))
PhishEmail == Email(Sender(NEUTRAL), Body(TRUE, {Url("http", LOGIN_EVIL)}))
SpoofEmail == Email(Sender(LOGIN_EVIL), Body(FALSE, {Url("https", GOOD)}))
FriendEmail == Email(Sender(MAIL_GOOD), Body(TRUE, {}))
LinkEmail ==
  Email(NoAtSender, Body(FALSE, {Url("http", NEUTRAL), Url("www", MAIL_GOOD)}))
BaitEmail == Email(Sender(NEUTRAL), Body(TRUE, {Url("http", NEUTRAL)}))
MixedEmail ==
  Email(Sender(NEUTRAL),
        Body(TRUE, {Url("http", NEUTRAL), Url("https", NEUTRAL)}))

OcrEmail ==
  EmailWith(Sender(NEUTRAL), Body(FALSE, {}),
            <<Body(TRUE, {Url("http", LOGIN_EVIL)})>>)

TwinEmail == Email(Sender(LOGIN_EVIL), Body(FALSE, {Url("https", BAD)}))
PalsEmail == Email(Sender(MAIL_GOOD), Body(TRUE, {Url("http", KIND)}))

Emails ==
  {PlainEmail, PhishEmail, SpoofEmail, FriendEmail, LinkEmail, BaitEmail,
   MixedEmail, OcrEmail, TwinEmail, PalsEmail}

Requests(ids, emails, flags) ==
  {[message_id |-> m, sender |-> e.sender, body |-> e.body,
    attachments_text |-> e.attachments_text,
    force_recompute |-> f] : m \in ids, e \in emails, f \in flags}

Probs == {0, 5000, 35000, 399999, 400000, 571000, 699999, 700000, 1000000}
Labels == {"1", "0", "suspicious", "ham", "raise"}

Outcomes(probs, raises, labels) ==
  {[prob |-> u, proba_raises |-> x, label |-> l] :
     u \in probs, x \in raises, l \in labels}

Artifacts == {"missing", "corrupt", "sklearn", "keras", "torch"}

\* ------------------------------------------------------------------- steps
Logged(t, ops) == log' = [log EXCEPT ![t] = @ \cup ops]

Assessment(t) ==
  LET data == validated_data(req[t])
  IN  assess_urls(data["sender"], data["body"], MALICIOUS_ROOTS, BENIGN_ROOTS)

OwnRow(t) == CHOOSE r \in table : r.txn = t

\* rec.verdict = ...; rec.score = ...; rec.reasons = ...; rec.save()
Saved(t, verdict, score, reasons) ==
  (table \ {OwnRow(t)})
    \cup {[OwnRow(t) EXCEPT !.verdict = verdict, !.score = score,
                            !.reasons = reasons]}

\* post, lines 54-79: validation, the lookup, and the cached response.
Post(t, requests) ==
  /\ pc[t] = "idle"
  /\ \E request \in requests :
       LET data == validated_data(request)
           found == IF force_recompute(data) THEN {}
                    ELSE existing(table, data["message_id"])
       IN  /\ req' = [req EXCEPT ![t] = request]
           /\ IF found # {}
              THEN /\ \E r \in found :
                        resp' = [resp EXCEPT ![t] =
                          [status |-> 200, message_id |-> r.message_id,
                           verdict |-> r.verdict, score |-> r.score,
                           reasons |-> r.reasons, cached |-> TRUE]]
                   /\ pc' = [pc EXCEPT ![t] = "done"]
              ELSE /\ resp' = resp
                   /\ pc' = [pc EXCEPT ![t] = "create"]
  /\ Logged(t, {"lookup"})
  /\ UNCHANGED <<table, pred, drawn, engine, environment>>

\* post, lines 100-108, when the unique index rejects the INSERT: the
\* IntegrityError leaves the atomic block and post().
CreateConflict(t) ==
  /\ pc[t] = "create"
  /\ ~insert_waits(table, req[t]["message_id"], t)
  /\ unique_violation(table, req[t]["message_id"])
  /\ resp' = [resp EXCEPT ![t] = [status |-> 500, error |-> "IntegrityError"]]
  /\ pc' = [pc EXCEPT ![t] = "done"]
  /\ Logged(t, {"create"})
  /\ UNCHANGED <<table, req, pred, drawn, engine, environment>>

\* post, lines 100-150: the INSERT, assess_urls, and on a malicious hit the
\* verdict saved without the engine.
Create(t) ==
  /\ pc[t] = "create"
  /\ ~insert_waits(table, req[t]["message_id"], t)
  /\ ~unique_violation(table, req[t]["message_id"])
  /\ LET url_info == Assessment(t)
          row == [message_id |-> req[t]["message_id"], verdict |-> "unknown",
                  score |-> NULL_SCORE, reasons |-> <<>>, txn |-> t]
     IN  IF url_info.status = "malicious" /\ url_info.malicious_hosts # <<>>
         THEN /\ table' = table \cup
                    {[row EXCEPT !.verdict = "spam", !.score = MALICIOUS_SCORE,
                        !.reasons = malicious_reasons(url_info.malicious_hosts)]}
              /\ pc' = [pc EXCEPT ![t] = "commit"]
              /\ Logged(t, {"create", "assess_urls", "save"})
         ELSE /\ table' = table \cup {row}
              /\ pc' = [pc EXCEPT ![t] = "predict"]
              /\ Logged(t, {"create", "assess_urls"})
  /\ UNCHANGED <<req, pred, resp, drawn, engine, environment>>

Fuse_engine_label(t, model, out) ==
  LET url_info == Assessment(t)
      prediction ==
        predict_on(model, body_for_analysis(validated_data(req[t])), out)
      final_score ==
        fuse_score(url_info.status, url_info.benign_hosts, prediction.score)
  IN  /\ pred' = [pred EXCEPT ![t] = prediction]
      /\ drawn' = [drawn EXCEPT ![t] =
            IF model \in {"sklearn", "keras"} THEN out ELSE NoOut]
      /\ table' = Saved(t, IF prediction.verdict = "unknown"
                           THEN fuse_verdict(final_score)
                           ELSE prediction.verdict,
                        round3(final_score),
                        fuse_reasons(url_info.status, url_info.benign_hosts,
                                     prediction.reasons))
      /\ pc' = [pc EXCEPT ![t] = "commit"]

\* post, lines 152-187, from the return of ml_engine.predict to rec.save().
Fuse(t, model, out) ==
  LET url_info == Assessment(t)
      prediction ==
        predict_on(model, body_for_analysis(validated_data(req[t])), out)
      final_score ==
        fuse_score(url_info.status, url_info.benign_hosts, prediction.score)
  IN  /\ pred' = [pred EXCEPT ![t] = prediction]
      /\ drawn' = [drawn EXCEPT ![t] =
            IF model \in {"sklearn", "keras"} THEN out ELSE NoOut]
      /\ table' = Saved(t, fuse_verdict(final_score), round3(final_score),
                        fuse_reasons(url_info.status, url_info.benign_hosts,
                                     prediction.reasons))
      /\ pc' = [pc EXCEPT ![t] = "commit"]

\* predict, line 119 with _model set: the model is used as it is.
PredictCached(t, outcomes) ==
  /\ pc[t] = "predict"
  /\ _model # None
  /\ \E out \in outcomes :
       Fuse(t, _model, out)
  /\ Logged(t, {"predict", "save"})
  /\ UNCHANGED <<req, resp, engine, environment>>

\* predict, line 119 with _model None: load_model() is called.
PredictLoad(t) ==
  /\ pc[t] = "predict"
  /\ _model = None
  /\ pc' = [pc EXCEPT ![t] = "load_model"]
  /\ Logged(t, {"predict", "load_model"})
  /\ UNCHANGED <<table, req, pred, resp, drawn, engine, environment>>

\* load_model, lines 76-81: the lock taken, the cached instance returned.
LoadCached(t, outcomes) ==
  /\ pc[t] = "load_model"
  /\ _lock = 0
  /\ _model # None
  /\ \E out \in outcomes :
       Fuse(t, _model, out)
  /\ Logged(t, {"save"})
  /\ UNCHANGED <<req, resp, engine, environment>>

\* load_model, lines 76-89: the lock taken, no path or no file: None, and
\* predict answers with the fallback.
LoadNoFile(t) ==
  /\ pc[t] = "load_model"
  /\ _lock = 0
  /\ _model = None
  /\ ~MODEL_PATH \/ artifact = "missing"
  /\ Fuse(t, None, NoOut)
  /\ load_failed' = TRUE
  /\ Logged(t, {"path_check", "save"})
  /\ UNCHANGED <<req, resp, _model, _lock, environment>>

LoadBegin_unlocked(t) ==
  /\ pc[t] = "load_model"
  /\ _model = None
  /\ MODEL_PATH /\ artifact # "missing"
  /\ _lock' = t
  /\ pc' = [pc EXCEPT ![t] = "deserialize"]
  /\ Logged(t, {"path_check"})
  /\ UNCHANGED <<table, req, pred, resp, drawn, _model, load_failed, environment>>

\* load_model, lines 76-91: the lock taken and kept, the file found.
LoadBegin(t) ==
  /\ pc[t] = "load_model"
  /\ _lock = 0
  /\ _model = None
  /\ MODEL_PATH /\ artifact # "missing"
  /\ _lock' = t
  /\ pc' = [pc EXCEPT ![t] = "deserialize"]
  /\ Logged(t, {"path_check"})
  /\ UNCHANGED <<table, req, pred, resp, drawn, _model, load_failed, environment>>

\* load_model, lines 92-98: _model assigned, the lock released; then predict
\* on what was loaded.
LoadEnd(t, outcomes) ==
  /\ pc[t] = "deserialize"
  /\ LET loaded == load_model_from_file(artifact)
     IN  /\ _model' = loaded
         /\ load_failed' = (load_failed \/ loaded = None)
         /\ \E out \in outcomes : Fuse(t, loaded, out)
  /\ _lock' = 0
  /\ Logged(t, {"deserialize", "save"})
  /\ UNCHANGED <<req, resp, environment>>

\* post, lines 188-201: the atomic block left (COMMIT) and the response.
Commit(t) ==
  /\ pc[t] = "commit"
  /\ LET rec == OwnRow(t)
     IN  /\ table' = (table \ {rec}) \cup {[rec EXCEPT !.txn = 0]}
         /\ resp' = [resp EXCEPT ![t] =
               [status |-> 200, message_id |-> rec.message_id,
                verdict |-> rec.verdict, score |-> rec.score,
                reasons |-> rec.reasons, cached |-> FALSE]]
  /\ pc' = [pc EXCEPT ![t] = "done"]
  /\ UNCHANGED <<req, pred, log, drawn, engine, environment>>

Abort_row_kept(t) ==
  /\ pc[t] \in {"predict", "commit"}
  /\ table' = (table \ {OwnRow(t)}) \cup {[OwnRow(t) EXCEPT !.txn = 0]}
  /\ resp' = [resp EXCEPT ![t] = [status |-> 500, error |-> "DatabaseError"]]
  /\ pc' = [pc EXCEPT ![t] = "done"]
  /\ Logged(t, {"rollback"})
  /\ UNCHANGED <<req, pred, drawn, engine, environment>>

\* post, lines 100-187: a statement inside the atomic block raises after the
\* INSERT (rec.save() or the COMMIT failing with a database error).  The
\* exception leaves the block, the transaction is rolled back, post() ends
\* with the error.
Abort(t) ==
  /\ pc[t] \in {"predict", "commit"}
  /\ table' = table \ {OwnRow(t)}
  /\ resp' = [resp EXCEPT ![t] = [status |-> 500, error |-> "DatabaseError"]]
  /\ pc' = [pc EXCEPT ![t] = "done"]
  /\ Logged(t, {"rollback"})
  /\ UNCHANGED <<req, pred, drawn, engine, environment>>

\* The response is sent; the worker takes the next request.
Return(t) ==
  /\ pc[t] = "done"
  /\ pc' = [pc EXCEPT ![t] = "idle"]
  /\ req' = [req EXCEPT ![t] = NoReq]
  /\ pred' = [pred EXCEPT ![t] = NoPred]
  /\ resp' = [resp EXCEPT ![t] = NoResp]
  /\ log' = [log EXCEPT ![t] = {}]
  /\ drawn' = [drawn EXCEPT ![t] = NoOut]
  /\ UNCHANGED <<table, engine, environment>>

\* ---------------------------------------------------------- specification
\* The process after import: no rows, no model, the blocklists loaded from
\* the files that exist.
InitServer(paths, artifacts, files) ==
  /\ table = {}
  /\ pc = [t \in Threads |-> "idle"]
  /\ req = [t \in Threads |-> NoReq]
  /\ pred = [t \in Threads |-> NoPred]
  /\ resp = [t \in Threads |-> NoResp]
  /\ log = [t \in Threads |-> {}]
  /\ drawn = [t \in Threads |-> NoOut]
  /\ _model = None
  /\ _lock = 0
  /\ load_failed = FALSE
  /\ MODEL_PATH \in paths
  /\ artifact \in artifacts
  /\ MALICIOUS_TXT_PATH \in files
  /\ BENIGN_TXT_PATH \in files
  /\ MALICIOUS_ROOTS = load_blocklist(MALICIOUS_TXT_PATH, MaliciousLines)
  /\ BENIGN_ROOTS = load_blocklist(BENIGN_TXT_PATH, BenignLines)

InitWith(paths, artifacts, files) ==
  /\ InitServer(paths, artifacts, files)
  /\ raw = <<>>
  /\ cleaned = <<>>

\* The steps of a worker whose request is the first to reach the engine.
FirstCall(t, requests, outcomes) ==
  \/ Post(t, requests)
  \/ Create(t)
  \/ PredictLoad(t)
  \/ LoadNoFile(t)
  \/ LoadBegin(t)
  \/ LoadEnd(t, outcomes)
  \/ Commit(t)
  \/ Return(t)

\* The steps of one worker on its own: a later analysis finds the model set.
Sequential(t, requests, outcomes) ==
  \/ FirstCall(t, requests, outcomes)
  \/ PredictCached(t, outcomes)

\* The steps that need another worker to have acted between two of its own.
Concurrent(t, outcomes) ==
  \/ CreateConflict(t)
  \/ LoadCached(t, outcomes)

\* Concurrent workers, one kind of email, a model that loads or does not.
Init == InitWith(BOOLEAN, {"corrupt", "sklearn"}, {TRUE})
SpecRequests == Requests(MsgIds, {PlainEmail}, BOOLEAN)
SpecOutcomes == Outcomes({699999}, {FALSE}, {"1"})
Next ==
  \E t \in Threads :
    \/ Sequential(t, SpecRequests, SpecOutcomes)
    \/ Concurrent(t, SpecOutcomes)
Spec == Init /\ [][Next]_vars

\* One worker and one message id, so one analysis: every kind of email,
\* model, model behaviour and blocklist.
InitOne == InitWith(BOOLEAN, Artifacts, BOOLEAN)
OneRequests == Requests({1}, Emails, BOOLEAN)
OneOutcomes == Outcomes(Probs, BOOLEAN, Labels)
NextOne == FirstCall(1, OneRequests, OneOutcomes)
SpecOne == InitOne /\ [][NextOne]_vars

\* One analysis in every state of the engine and of the blocklists, the
\* worker thread running on as long as it has a step to take.
DegradeOutcomes == Outcomes({0, 700000}, BOOLEAN, {"1", "raise"})
NextDegrade == FirstCall(1, OneRequests, DegradeOutcomes)
SpecDegrade == InitOne /\ [][NextDegrade]_vars /\ WF_vars(NextDegrade)

\* One worker calling the engine once per message id, the model raising or
\* not.
InitEngine == InitWith(BOOLEAN, Artifacts, {TRUE})
EngineRequests == Requests(MsgIds, {PlainEmail}, {FALSE})
EngineOutcomes == Outcomes({399999, 699999}, BOOLEAN, {"1", "raise"})
NextEngine == Sequential(1, EngineRequests, EngineOutcomes)
SpecEngine == InitEngine /\ [][NextEngine]_vars

\* One worker and no model that loads: every call answers with the fallback
\* heuristic, for every kind of email.
InitFallback == InitWith(BOOLEAN, {"missing", "corrupt"}, {TRUE})
FallbackRequests == Requests(MsgIds, Emails, {FALSE})
FallbackOutcomes == Outcomes({0}, {FALSE}, {"0"})
NextFallback == FirstCall(1, FallbackRequests, FallbackOutcomes)
SpecFallback == InitFallback /\ [][NextFallback]_vars

\* Concurrent workers with no model configured, and statements of the atomic
\* block that may raise a database error.
InitAtomic == InitWith({FALSE}, {"missing"}, {TRUE})
AtomicRequests == Requests(MsgIds, {PlainEmail, PhishEmail}, {FALSE})
NextAtomic ==
  \E t \in Threads :
    \/ Post(t, AtomicRequests)
    \/ Create(t)
    \/ CreateConflict(t)
    \/ PredictLoad(t)
    \/ LoadNoFile(t)
    \/ Commit(t)
    \/ Abort(t)
    \/ Return(t)
SpecAtomic == InitAtomic /\ [][NextAtomic]_vars

\* The normaliser on its own: clean_text applied to a raw text, and then to
\* its own result.
RawTokens ==
  {"Word", "gap", "moji", "url", "email", "phone", "image", "<b>", "<url>",
   "&lt;b&gt;", "&amp;lt;b&amp;gt;", "fwd", "dashfwd", "from"}
Texts == UNION {[1..n -> RawTokens] : n \in 0..MaxLen}

InitText ==
  /\ InitServer({FALSE}, {"missing"}, {TRUE})
  /\ raw \in Texts
  /\ cleaned = <<>>

Normalize ==
  /\ Len(cleaned) < 2
  /\ cleaned' = Append(cleaned, clean_text(IF cleaned = <<>> THEN raw
                                           ELSE cleaned[Len(cleaned)]))
  /\ UNCHANGED <<table, pc, req, pred, resp, log, drawn, engine, MODEL_PATH,
                 artifact, MALICIOUS_ROOTS, BENIGN_ROOTS, MALICIOUS_TXT_PATH,
                 BENIGN_TXT_PATH, raw>>

NextText == Normalize
SpecText == InitText /\ [][NextText]_vars

\* Concurrent workers and a loaded model that gives one probability under
\* different labels, for a sender of a benign root.
InitLabel == InitWith({TRUE}, {"sklearn"}, {TRUE})
LabelRequests == Requests(MsgIds, {FriendEmail}, {FALSE})
LabelOutcomes == Outcomes({571000}, {FALSE}, {"1", "0", "suspicious"})
NextLabel ==
  \E t \in Threads :
    \/ Post(t, LabelRequests)
    \/ Create(t)
    \/ CreateConflict(t)
    \/ PredictCached(t, LabelOutcomes)
    \/ PredictLoad(t)
    \/ LoadCached(t, LabelOutcomes)
    \/ LoadBegin(t)
    \/ LoadEnd(t, LabelOutcomes)
    \/ Commit(t)
    \/ Return(t)
SpecLabel == InitLabel /\ [][NextLabel]_vars

\* ================================================================= claims

Persisted(message_id) ==
  {r \in table : r.message_id = message_id /\ r.txn = 0}

Engaged == {"create", "assess_urls", "predict", "load_model", "path_check",
            "deserialize", "save"}

\* The step that takes up a request without force_recompute for a message id
\* that has a persisted record.
C1_CachedStep(t) ==
  (/\ pc[t] = "idle"
   /\ pc'[t] # "idle"
   /\ ~req'[t]["force_recompute"]
   /\ Persisted(req'[t]["message_id"]) # {})
  => /\ pc'[t] = "done"
     /\ resp'[t].status = 200
     /\ resp'[t].cached
     /\ \E r \in Persisted(req'[t]["message_id"]) :
          /\ resp'[t].verdict = r.verdict
          /\ resp'[t].score = r.score
          /\ resp'[t].reasons = r.reasons
     /\ log'[t] \cap Engaged = {}
     /\ UNCHANGED <<table, pred, engine>>

\* C1: every analyze request without force_recompute for a message id that
\* has a persisted record is answered at once with cached = true and exactly
\* the stored verdict, score and reasons; it invokes neither the blocklist
\* assessment nor the engine, and writes nothing.
C1_Idempotent == [][\A t \in Threads : C1_CachedStep(t)]_vars

C1_Witness ==
  \E t \in Threads :
    /\ pc[t] = "done"
    /\ ~req[t]["force_recompute"]
    /\ resp[t].status = 200
    /\ resp[t].cached
    /\ resp[t].verdict = "spam"

C2_Unique ==
  \A r1, r2 \in table : r1.message_id = r2.message_id => r1 = r2

C2_Frozen == \A r \in table : r.txn = 0 => r \in table'

\* C2: the table never holds two rows of one message id, and a committed row
\* is never changed or removed by any step.
C2_OncePerMessage == [](C2_Unique) /\ [][C2_Frozen]_vars

C2_Witness ==
  \E t \in Threads :
    /\ pc[t] = "done"
    /\ resp[t].status = 500
    /\ Persisted(req[t]["message_id"]) # {}

\* A host whose root domain (its last two labels) is in a set of roots.
RootIn(host, roots) ==
  /\ Len(host) >= 2
  /\ <<host[Len(host) - 1], host[Len(host)]>> \in roots

Listed(request, roots) ==
  \/ request["sender"].at /\ RootIn(request["sender"].domain, roots)
  \/ \E u \in request["body"].urls : RootIn(u.host, roots)

Analysed(t) == pc[t] = "done" /\ resp[t].status = 200 /\ ~resp[t].cached

EngineOps == {"predict", "load_model", "path_check", "deserialize"}

\* C3: a request that is analysed (not answered from the cache) and whose
\* sender root domain or some body URL root domain is in the malicious set
\* never reaches the engine (no predict call, no load attempt), and its
\* persisted record and response have verdict spam and score 1.0, whether or
\* not a benign domain is present as well.
C3_ShortCircuit ==
  \A t \in Threads :
    (pc[t] \in {"predict", "load_model", "deserialize", "commit", "done"}
       /\ Listed(req[t], MALICIOUS_ROOTS)
       /\ (pc[t] = "done" => Analysed(t)))
    => /\ log[t] \cap EngineOps = {}
       /\ pred[t] = NoPred
       /\ pc[t] \in {"commit", "done"}
       /\ \A r \in table :
            r.message_id = req[t]["message_id"]
            => r.verdict = "spam" /\ r.score = 1000
       /\ Analysed(t)
          => /\ resp[t].verdict = "spam"
             /\ resp[t].score = 1000
             /\ Persisted(req[t]["message_id"]) # {}

C3_Witness ==
  \E t \in Threads :
    /\ Analysed(t)
    /\ Listed(req[t], MALICIOUS_ROOTS)
    /\ Listed(req[t], BENIGN_ROOTS)
    /\ ~req[t]["sender"].at \/ ~RootIn(req[t]["sender"].domain, BENIGN_ROOTS)

Thresholds(x, spam_cut, suspicious_cut) ==
  IF x >= spam_cut THEN "spam"
  ELSE IF x >= suspicious_cut THEN "suspicious"
  ELSE "benign"

\* C4: when the engine returned probability p (in thousandths) to an analysed
\* request, the persisted score is the thousandth nearest to 0.7 * p on a
\* benign-only hit and p itself on an unknown assessment, and the verdict is
\* the threshold table applied to the unrounded fused score.
C4_Fusion ==
  \A t \in Threads :
    (Analysed(t) /\ pred[t] # NoPred)
    => LET p == pred[t].score
           benign_only == /\ Listed(req[t], BENIGN_ROOTS)
                          /\ ~Listed(req[t], MALICIOUS_ROOTS)
           fused == IF benign_only THEN 7 * p ELSE 10 * p
       IN  /\ 10 * resp[t].score - fused \in -5..5
           /\ ~benign_only => resp[t].score = p
           /\ resp[t].verdict = Thresholds(fused, 7000, 4000)
           /\ \E r \in Persisted(req[t]["message_id"]) :
                r.score = resp[t].score /\ r.verdict = resp[t].verdict

C4_Witness ==
  \E t \in Threads :
    /\ Analysed(t)
    /\ Listed(req[t], BENIGN_ROOTS)
    /\ pred[t] # NoPred
    /\ pred[t].score = 571
    /\ resp[t].score = 400
    /\ resp[t].verdict = "benign"

\* C5: with an unknown assessment and a loaded model, the verdict is the
\* threshold table applied to the model's full-precision probability, so
\* 0.699999 gives suspicious and 0.399999 gives benign.
C5_FullPrecision ==
  \A t \in Threads :
    (/\ Analysed(t)
     /\ pred[t] # NoPred
     /\ pred[t].model \in {"sklearn", "keras"}
     /\ ~Listed(req[t], BENIGN_ROOTS)
     /\ ~Listed(req[t], MALICIOUS_ROOTS))
    => resp[t].verdict = Thresholds(drawn[t].prob, 700000, 400000)

\* C6: a request sent with force_recompute for a message id that has a
\* persisted record is analysed again and answered with cached = false,
\* neither failing nor returning the stored record.
C6_Recomputed ==
  \A t \in Threads :
    (/\ pc[t] = "done"
     /\ req[t]["force_recompute"]
     /\ Persisted(req[t]["message_id"]) # {})
    => /\ resp[t].status = 200
       /\ ~resp[t].cached
       /\ "assess_urls" \in log[t]

\* C7: no request ends with a propagated error; the one whose INSERT hits
\* the uniqueness violation returns the existing record.
C7_NoPropagatedError ==
  \A t \in Threads :
    pc[t] = "done"
    => /\ resp[t].status = 200
       /\ \E r \in Persisted(req[t]["message_id"]) :
            resp[t].verdict = r.verdict /\ resp[t].score = r.score

C8_NoRetry ==
  load_failed
  => \A t \in Threads :
       /\ "path_check" \in log'[t] => "path_check" \in log[t]
       /\ pc'[t] = "deserialize" => pc[t] = "deserialize"

C8_FallbackOnly ==
  load_failed
  => \A t \in Threads : pred[t] # NoPred => pred[t].model = "stub"

\* C8: once a load_model() call has failed, no later predict call checks the
\* path or deserializes again, and every later call answers with the
\* rule-based fallback.
C8_Permanent == [](C8_FallbackOnly) /\ [][C8_NoRetry]_vars

C9_OneInside ==
  /\ Cardinality({t \in Threads : pc[t] = "deserialize"}) <= 1
  /\ \A t \in Threads : pc[t] = "deserialize" => _lock = t /\ _model = None

C9_Loaded ==
  _model # None
  => /\ _model' = _model
     /\ \A t \in Threads :
          /\ pc'[t] # "deserialize"
          /\ "deserialize" \in log'[t] => "deserialize" \in log[t]
          /\ (pred[t] = NoPred /\ pred'[t] # NoPred)
             => pred'[t].model \in {_model, "error_fallback"}

\* C9: at most one thread is inside the deserialization step, and it holds
\* the lock; once _model is set it never changes, no thread deserializes
\* again, and every call that completes from then on was answered by that
\* model instance.
C9_SingleLoader == [](C9_OneInside) /\ [][C9_Loaded]_vars

C9_Witness ==
  \E t \in Threads :
    /\ pc[t] = "commit"
    /\ "load_model" \in log[t]
    /\ "path_check" \notin log[t]
    /\ pred[t].model = "sklearn"

\* The loaded model raised in this call: in its scoring interface
\* (predict_proba, or predict for a model without it), or anywhere.
ScoringRaised(t) ==
  /\ drawn[t] # NoOut
  /\ \/ _model = "sklearn" /\ drawn[t].proba_raises
     \/ _model = "keras" /\ drawn[t].label = "raise"

LabelRaised(t) ==
  /\ drawn[t] # NoOut
  /\ _model = "sklearn"
  /\ ~drawn[t].proba_raises
  /\ drawn[t].label = "raise"

IsErrorFallback(prediction) ==
  /\ prediction.model = "error_fallback"
  /\ prediction.score = 0
  /\ Len(prediction.reasons) = 1
  /\ prediction.reasons[1][1] = "model_error"

\* C10 as claimed: whenever the loaded model raises during a predict call,
\* the call returns error_fallback with score 0 and one model_error reason.
C10_AnyRaiseFallsBack ==
  \A t \in Threads :
    (ScoringRaised(t) \/ LabelRaised(t)) => IsErrorFallback(pred[t])

C10_Result ==
  \A t \in Threads :
    /\ ScoringRaised(t) => IsErrorFallback(pred[t]) /\ _model # None
    /\ LabelRaised(t)
       => /\ pred[t].model = "sklearn"
          /\ 1000 * pred[t].score - drawn[t].prob \in -500..500
          /\ pred[t].verdict =
               (IF drawn[t].prob > 500000 THEN "spam" ELSE "benign")

C10_EngineKept ==
  \A t \in Threads :
    (pred'[t] # pred[t] /\ pred'[t].model = "error_fallback")
    => /\ _model' # None
       /\ _model # None => _model' = _model
       /\ _lock' = 0

\* C10 as amended: when the model's scoring interface raises, the call
\* returns error_fallback with score 0 and one model_error reason and the
\* model stays loaded and unchanged; when only the label lookup model.predict
\* of a predict_proba model raises, the call returns the sklearn result with
\* the rounded probability and the verdict of probability > 0.5.
C10_PerCallFailure == [](C10_Result) /\ [][C10_EngineKept]_vars

C10_Witness ==
  \E t \in Threads :
    /\ pc[t] = "commit"
    /\ pred[t].model = "sklearn"
    /\ "load_model" \notin log[t]
    /\ \E r \in table :
         /\ r.txn = 0
         /\ r.reasons = << <<"model_error", "exc">> >>

\* What the analysed text of a request holds.
HoldsPhrase(request) == request["body"].phrase
HoldsHttp(request) == \E u \in request["body"].urls : u.scheme = "http"
HoldsHttps(request) == \E u \in request["body"].urls : u.scheme = "https"

C11_Rules(request) ==
  (IF HoldsPhrase(request) THEN <<"suspicious_phrases">> ELSE <<>>)
    \o (IF HoldsHttp(request) /\ ~HoldsHttps(request)
        THEN <<"insecure_http_link">> ELSE <<>>)

\* C11: with no model available, every predict call returns the fallback
\* result whose score is 0.5 if the text holds a suspicious phrase plus 0.3
\* if it holds an http:// link and no https:// link, within [0, 1], and
\* whose reasons are the tags of the rules that fired, suspicious_phrases
\* before insecure_http_link; the result depends on the text alone.
C11_Fallback ==
  \A t \in Threads :
    (pred[t] # NoPred /\ _model = None)
    => /\ pred[t].model = "stub"
       /\ pred[t].score =
            (IF HoldsPhrase(req[t]) THEN 500 ELSE 0)
              + (IF HoldsHttp(req[t]) /\ ~HoldsHttps(req[t]) THEN 300 ELSE 0)
       /\ pred[t].score \in 0..1000
       /\ pred[t].reasons =
            [i \in 1..Len(C11_Rules(req[t])) |-> <<C11_Rules(req[t])[i]>>]

\* A later call of the process (a record is already persisted) on a text with
\* a phrase and both kinds of link: only the phrase rule fires.
C11_Witness ==
  \E t \in Threads :
    /\ pred[t] # NoPred
    /\ pred[t].model = "stub"
    /\ HoldsPhrase(req[t]) /\ HoldsHttp(req[t]) /\ HoldsHttps(req[t])
    /\ pred[t].score = 500
    /\ \E r \in table : r.txn = 0 /\ r.score = 800

FinalVerdicts == {"spam", "suspicious", "benign"}

C12_Complete(r) == r.verdict \in FinalVerdicts /\ r.score \in 0..1000

C12_Visible ==
  /\ \A r \in table : r.txn = 0 => C12_Complete(r)
  /\ \A t \in Threads :
       (pc[t] = "done" /\ resp[t].status = 200)
       => resp[t].verdict \in FinalVerdicts /\ resp[t].score \in 0..1000

C12_RolledBack ==
  \A t \in Threads :
    (pc[t] \in {"predict", "load_model", "deserialize", "commit"}
       /\ pc'[t] = "done" /\ resp'[t].status # 200)
    => /\ \A r \in table' : r.message_id # req[t]["message_id"]
       /\ \A r \in table : r.txn # t => r \in table'

\* C12: every record a reader can see (every committed row, and every
\* record an analyze request answers with) has a verdict among spam,
\* suspicious and benign and a score that is not null; and when a step after
\* the record creation raises, the step that ends the request leaves no row
\* of that message id and touches no other row.
C12_Atomic == [](C12_Visible) /\ [][C12_RolledBack]_vars

\* A request was rolled back while its row still held the default verdict,
\* and another request then looked up the same message id and persisted it.
C12_Witness ==
  \E t, u \in Threads :
    /\ pc[t] = "done"
    /\ "rollback" \in log[t]
    /\ "predict" \notin log[t]
    /\ pc[u] = "done"
    /\ resp[u].status = 200
    /\ req[u]["message_id"] = req[t]["message_id"]

C13_Verdict ==
  \A t \in Threads :
    pc[t] = "done"
    => /\ resp[t].status = 200
       /\ resp[t].verdict \in {"spam", "suspicious", "benign"}

C13_Answered == \A t \in Threads : (pc[t] = "create") ~> (pc[t] = "done")

\* C13: every validated analyze request for a new message id reaches its
\* response, and the response is a success carrying a verdict among spam,
\* suspicious and benign, whatever the engine does (model loaded, no model,
\* a loaded object without a predict interface, the model raising) and
\* whether or not the blocklists are empty.
C13_Degrades == [](C13_Verdict) /\ C13_Answered

\* A request answered while the loaded object had no predict interface and
\* both blocklists were empty.
C13_Witness ==
  \E t \in Threads :
    /\ Analysed(t)
    /\ pred[t] # NoPred
    /\ pred[t].model = "unknown"
    /\ pred[t].verdict = "unknown"
    /\ MALICIOUS_ROOTS = {} /\ BENIGN_ROOTS = {}
    /\ resp[t].verdict = "benign"

Range(s) == {s[i] : i \in 1..Len(s)}

\* C14: for every request past the lookup, the assessment of its resolved
\* hosts has malicious_hosts exactly the hosts that are members of the
\* malicious set and benign_hosts exactly the hosts that are members of the
\* benign set; its status is malicious iff malicious_hosts is not empty,
\* otherwise benign iff benign_hosts is not empty, otherwise unknown; and the
\* engine is called iff the status is not malicious.
C14_Assessment ==
  \A t \in Threads :
    pc[t] \in {"predict", "load_model", "deserialize", "commit"}
    => LET a == Assessment(t)
       IN  /\ Range(a.malicious_hosts) = Range(a.hosts) \cap MALICIOUS_ROOTS
           /\ Range(a.benign_hosts) = Range(a.hosts) \cap BENIGN_ROOTS
           /\ a.status = "malicious" <=> a.malicious_hosts # <<>>
           /\ a.status = "benign"
                <=> (a.malicious_hosts = <<>> /\ a.benign_hosts # <<>>)
           /\ a.status = "unknown"
                <=> (a.malicious_hosts = <<>> /\ a.benign_hosts = <<>>)
           /\ pc[t] # "commit" => a.status # "malicious"
           /\ pc[t] = "commit"
                => (a.status = "malicious" <=> "predict" \notin log[t])

\* An assessment whose only host is a benign root, while the malicious file
\* lists a subdomain of that root: the host is benign, not malicious.
C14_Witness ==
  \E t \in Threads :
    /\ pc[t] = "commit"
    /\ MAIL_GOOD \in MALICIOUS_ROOTS
    /\ req[t]["sender"].domain = MAIL_GOOD
    /\ Assessment(t).hosts = <<GOOD>>
    /\ Assessment(t).malicious_hosts = <<>>
    /\ Assessment(t).benign_hosts = <<GOOD>>
    /\ Assessment(t).status = "benign"
    /\ "predict" \in log[t]

\* C15: clean_text applied to its own result gives that result again, for
\* every raw text.
C15_Idempotent == Len(cleaned) = 2 => cleaned[2] = cleaned[1]

\* A forwarding marker stands before place i of a text.
MarkerBefore(text, i) ==
  \E j \in 1..(i - 1) : text[j] \in {"fwd", "dashfwd", "from"}

PlaceholderOf(tok) ==
  IF tok = "url" THEN "<url>"
  ELSE IF tok = "email" THEN "<email>"
  ELSE IF tok = "phone" THEN "<phone>"
  ELSE "<image>"

\* C19: for every URL, email address, phone-like digit run or image marker
\* of the raw text that no forwarding marker precedes, the result of
\* clean_text holds the lower-case placeholder token of its kind.
C19_PlaceholdersKept ==
  Len(cleaned) >= 1
  => \A i \in 1..Len(raw) :
       (raw[i] \in {"url", "email", "phone", "image"} /\ ~MarkerBefore(raw, i))
       => PlaceholderOf(raw[i]) \in Range(cleaned[1])

OcrTexts(request) == Range(request["attachments_text"])

\* C16: a request that is analysed and one of whose attachment texts holds a
\* URL of a malicious root domain is persisted and answered as spam with
\* score 1.0, as it is when the URL is in the body.
C16_OcrAnalysed ==
  \A t \in Threads :
    (/\ Analysed(t)
     /\ \E a \in OcrTexts(req[t]) :
          \E u \in a.urls : RootIn(u.host, MALICIOUS_ROOTS))
    => resp[t].verdict = "spam" /\ resp[t].score = 1000

C17_EmptySets ==
  /\ ~MALICIOUS_TXT_PATH => MALICIOUS_ROOTS = {}
  /\ ~BENIGN_TXT_PATH => BENIGN_ROOTS = {}

C17_EngineAlone ==
  (MALICIOUS_ROOTS = {} /\ BENIGN_ROOTS = {})
  => \A t \in Threads :
       pc[t] \in {"predict", "load_model", "deserialize", "commit", "done"}
       => /\ Assessment(t).status = "unknown"
          /\ Assessment(t).malicious_hosts = <<>>
          /\ Assessment(t).benign_hosts = <<>>
          /\ Analysed(t)
             => /\ "predict" \in log[t]
                /\ pred[t] # NoPred
                /\ resp[t].score = pred[t].score
                /\ resp[t].reasons = pred[t].reasons
                /\ resp[t].verdict = Thresholds(pred[t].score, 700, 400)

\* C17: a blocklist file that is absent leaves its set empty; with both sets
\* empty every assessment is unknown with no malicious and no benign host,
\* and every analysed request is answered with the engine's score and
\* reasons and the verdict of that score.
C17_MissingSource == C17_EmptySets /\ C17_EngineAlone

\* Both files absent, and a request with a phrase and an http link to a host
\* the malicious file would have listed: suspicious phrase and insecure link
\* give 0.8 and spam.
C17_Witness ==
  \E t \in Threads :
    /\ ~MALICIOUS_TXT_PATH /\ ~BENIGN_TXT_PATH
    /\ Analysed(t)
    /\ Listed(req[t], MaliciousLines)
    /\ resp[t].score = 800
    /\ resp[t].verdict = "spam"

\* The roots of a set that a request's sender or body links resolve to.
HostsIn(request, roots) == {h \in roots : Listed(request, {h})}

\* The place of a root domain in string order.
Rank(h) == CHOOSE i \in 1..Len(SortedRoots) : SortedRoots[i] = h

\* r[from..] is one tag:host entry per host of the set, in string order.
DomainEntries(r, from, tag, hosts) ==
  /\ Len(r) = from - 1 + Cardinality(hosts)
  /\ \A i \in from..Len(r) :
       /\ Head(r[i]) = tag
       /\ Tail(r[i]) \in hosts
  /\ \A i, j \in from..Len(r) :
       i < j => Rank(Tail(r[i])) < Rank(Tail(r[j]))

\* C18: the reasons of an analysed request are, on a malicious hit,
\* blocklist_malicious_hit followed by one blocklist_malicious_domain entry
\* per malicious host in sorted order; on a benign hit, the engine's reasons
\* in their order, then blocklist_benign_hit, then one
\* blocklist_benign_domain entry per benign host in sorted order; on unknown,
\* the engine's reasons; and the persisted record holds the same reasons.
C18_ReasonOrder ==
  \A t \in Threads :
    Analysed(t)
    => LET r == resp[t].reasons
           mal == HostsIn(req[t], MALICIOUS_ROOTS)
           ben == HostsIn(req[t], BENIGN_ROOTS)
           n == IF pred[t] = NoPred THEN 0 ELSE Len(pred[t].reasons)
       IN  /\ \E row \in Persisted(req[t]["message_id"]) : row.reasons = r
           /\ mal # {}
              => /\ r[1] = <<"blocklist_malicious_hit">>
                 /\ DomainEntries(r, 2, "blocklist_malicious_domain", mal)
           /\ (mal = {} /\ ben # {})
              => /\ SubSeq(r, 1, n) = pred[t].reasons
                 /\ r[n + 1] = <<"blocklist_benign_hit">>
                 /\ DomainEntries(r, n + 2, "blocklist_benign_domain", ben)
           /\ (mal = {} /\ ben = {}) => r = pred[t].reasons

\* A benign hit on two hosts after the fallback gave two reasons.
C18_Witness ==
  \E t \in Threads :
    /\ Analysed(t)
    /\ resp[t].reasons =
         << <<"suspicious_phrases">>, <<"insecure_http_link">>,
            <<"blocklist_benign_hit">>,
            <<"blocklist_benign_domain", "good", "test">>,
            <<"blocklist_benign_domain", "kind", "test">> >>

SameButLabel(t, u) ==
  /\ Analysed(t) /\ Analysed(u)
  /\ pred[t] # NoPred /\ pred[u] # NoPred
  /\ pred[t].score = pred[u].score
  /\ pred[t].reasons = pred[u].reasons
  /\ Assessment(t) = Assessment(u)

\* C21: two analyses that differ only in the verdict label ml_engine.predict
\* returned (same engine score, same reasons, same blocklist assessment)
\* persist and answer with the same verdict, score and reasons.
C21_LabelIgnored ==
  \A t, u \in Threads :
    SameButLabel(t, u)
    => /\ resp[t].verdict = resp[u].verdict
       /\ resp[t].score = resp[u].score
       /\ resp[t].reasons = resp[u].reasons
       /\ \A r \in Persisted(req[t]["message_id"]),
             q \in Persisted(req[u]["message_id"]) :
            /\ r.verdict = q.verdict
            /\ r.score = q.score
            /\ r.reasons = q.reasons

\* Two such analyses of different messages, one labelled spam and one
\* suspicious by the engine, both persisted as benign with score 0.4.
C21_Witness ==
  \E t, u \in Threads :
    /\ SameButLabel(t, u)
    /\ req[t]["message_id"] # req[u]["message_id"]
    /\ pred[t].verdict = "spam"
    /\ pred[u].verdict = "suspicious"
    /\ resp[t].verdict = "benign" /\ resp[t].score = 400
    /\ resp[u].verdict = "benign" /\ resp[u].score = 400

====
